---- MODULE Spec2Model ----
(***************************************************************************)
(* Model of uni_extract.py: the UNIONFILES directory parser and extractor. *)
(* Bytes are integers 0..255, text is a sequence of code points, the       *)
(* archive is the sequence of the bytes of the input file.                 *)
(***************************************************************************)
EXTENDS Integers, Sequences, FiniteSets, TLC

(* ------------------------------------------------------------------ *)
(* Program constants                                                  *)
(* ------------------------------------------------------------------ *)
FIXED_PATH_LEN == 256
HEADER_MAGIC == <<85, 78, 73, 79, 78, 70, 73, 76, 69, 83>>   \* b"UNIONFILES"
START_OFFSET == 16
PEEK_LEN == 64
PAIR_LEN == 8
TAG_LEN == 4
UEND == <<85, 69, 78, 68>>                                   \* b"UEND"
NAME_LIMIT == 200
BACKSLASH == 92
SLASH == 47
UNDERSCORE == 95
CTRL_LIMIT == 32
MIN_NAME_LEN == 3
BM_PREFIX == <<66, 77>>                                      \* "BM"
REJECTED_CTRL == {0, 1, 2, 3}
\* the characters of the class [<>:"/\\|?*] of the sanitizer's pattern
ILLEGAL_CHARS == {60, 62, 58, 34, 47, 92, 124, 63, 42}

(* ------------------------------------------------------------------ *)
(* Bounds of the model                                                *)
(* ------------------------------------------------------------------ *)
MaxRecords == 2

(* ------------------------------------------------------------------ *)
(* Sequence helpers                                                   *)
(* ------------------------------------------------------------------ *)
Min(a, b) == IF a < b THEN a ELSE b

Max(a, b) == IF a > b THEN a ELSE b

Rep(b, n) == [i \in 1..n |-> b]

\* s[a:b] of Python, 0-based, for 0 <= a
Slice(s, a, b) == SubSeq(s, a + 1, Min(b, Len(s)))

\* bs.find(pat): 0-based index of the first occurrence, -1 when there is none
Find(bs, pat) ==
    LET hits == {i \in 0..(Len(bs) - Len(pat)) : Slice(bs, i, i + Len(pat)) = pat}
    IN IF hits = {} THEN -1 ELSE CHOOSE i \in hits : \A j \in hits : i <= j

\* name.startswith(prefix)
StartsWith(s, prefix) == Len(s) >= Len(prefix) /\ SubSeq(s, 1, Len(prefix)) = prefix

(* ------------------------------------------------------------------ *)
(* The file object f: read leaves the cursor after the bytes it got   *)
(* ------------------------------------------------------------------ *)
\* f.read(n) at cursor p: the bytes that exist, fewer than n at end-of-file
FileRead(data, p, n) == Slice(data, p, p + n)

(* ------------------------------------------------------------------ *)
(* read_cstring: bytes up to the first NUL, decoded as shift_jis with  *)
(* errors='ignore'                                                     *)
(* ------------------------------------------------------------------ *)
\* the double-byte characters of the modelled byte alphabet
\* (lead, trail) -> code point; other pairs are not drawn by Init
JIS_TABLE == { <<131, 92, 12477>>,     \* 83 5C  KATAKANA SO
               <<129, 95, 65340>>,     \* 81 5F  FULLWIDTH REVERSE SOLIDUS
               <<129, 64, 12288>> }    \* 81 40  IDEOGRAPHIC SPACE

IsLead(b) == (b >= 129 /\ b <= 159) \/ (b >= 224 /\ b <= 252)

\* the length of the leading run of single-byte ASCII characters of bs
AsciiRun(bs) ==
    LET stops == {i \in 1..Len(bs) : bs[i] >= 128}
    IN IF stops = {} THEN Len(bs) ELSE (CHOOSE i \in stops : \A j \in stops : i <= j) - 1

\* bytes.decode('shift_jis', errors='ignore'), a run of ASCII at a time
RECURSIVE ShiftJisIgnore(_)
ShiftJisIgnore(bs) ==
    IF bs = <<>> THEN <<>>
    ELSE IF AsciiRun(bs) > 0
    THEN SubSeq(bs, 1, AsciiRun(bs)) \o ShiftJisIgnore(SubSeq(bs, AsciiRun(bs) + 1, Len(bs)))
    ELSE LET b == Head(bs)
             rest == Tail(bs)
         IN IF b >= 161 /\ b <= 223 THEN <<65216 + b>> \o ShiftJisIgnore(rest)
            ELSE IF IsLead(b) /\ rest # <<>>
                    /\ \E t \in JIS_TABLE : t[1] = b /\ t[2] = Head(rest)
                 THEN <<(CHOOSE t \in JIS_TABLE : t[1] = b /\ t[2] = Head(rest))[3]>>
                          \o ShiftJisIgnore(Tail(rest))
            ELSE ShiftJisIgnore(rest)        \* undecodable byte: dropped

\* bs.find(b'\x00')
FindNul(bs) ==
    LET hits == {i \in 1..Len(bs) : bs[i] = 0}
    IN IF hits = {} THEN -1 ELSE (CHOOSE i \in hits : \A j \in hits : i <= j) - 1

read_cstring(bs) ==
    LET i == FindNul(bs)
        n == IF i = -1 THEN Len(bs) ELSE i
    IN ShiftJisIgnore(Slice(bs, 0, n))

(* ------------------------------------------------------------------ *)
(* looks_like_valid_path                                               *)
(* ------------------------------------------------------------------ *)
looks_like_valid_path(name) ==
    IF name = <<>> THEN FALSE
    ELSE IF Len(name) < MIN_NAME_LEN THEN FALSE
    ELSE IF \E i \in 1..Len(name) : name[i] \in REJECTED_CTRL THEN FALSE
    ELSE IF \A i \in 1..Len(name) : name[i] < CTRL_LIMIT THEN FALSE
    ELSE IF StartsWith(name, BM_PREFIX) THEN FALSE
    ELSE TRUE

(* ------------------------------------------------------------------ *)
(* sanitize_filename, on a platform whose os.sep is sep                *)
(* ------------------------------------------------------------------ *)
\* name.replace("\\", os.sep)
ReplaceBackslash(name, sep) ==
    [i \in 1..Len(name) |-> IF name[i] = BACKSLASH THEN sep ELSE name[i]]

\* variant: one leading separator is removed, not all of them
LStripOne(name, sep) ==
    IF name # <<>> /\ Head(name) = sep THEN Tail(name) ELSE name

\* name.lstrip(os.sep)
RECURSIVE LStrip(_, _)
LStrip(name, sep) ==
    IF name # <<>> /\ Head(name) = sep THEN LStrip(Tail(name), sep) ELSE name

\* re.sub(r'[<>:"/\\|?*\x00-\x1f]', '_', name)
ReplaceIllegal(name) ==
    [i \in 1..Len(name) |->
        IF name[i] \in ILLEGAL_CHARS \/ name[i] < CTRL_LIMIT THEN UNDERSCORE
        ELSE name[i]]

sanitize_filename(name, sep) ==
    Slice(ReplaceIllegal(LStrip(ReplaceBackslash(name, sep), sep)), 0, NAME_LIMIT)

(* ------------------------------------------------------------------ *)
(* struct.unpack("<II", data)                                          *)
(* ------------------------------------------------------------------ *)
U32(b) == b[1] + 256 * b[2] + 65536 * b[3] + 16777216 * b[4]

(* ------------------------------------------------------------------ *)
(* os.path.dirname of out_dir/safe_name and os.makedirs, with paths    *)
(* written relative to out_dir (<<>> is out_dir itself)                *)
(* ------------------------------------------------------------------ *)
LastSep(path, sep) ==
    LET at == {i \in 1..Len(path) : path[i] = sep}
    IN IF at = {} THEN 0 ELSE CHOOSE i \in at : \A j \in at : j <= i

RECURSIVE RStrip(_, _)
RStrip(path, sep) ==
    IF path # <<>> /\ path[Len(path)] = sep
    THEN RStrip(SubSeq(path, 1, Len(path) - 1), sep) ELSE path

DirName(path, sep) == RStrip(SubSeq(path, 1, LastSep(path, sep)), sep)

\* the directories os.makedirs(d, exist_ok=True) leaves in place: d and its ancestors
RECURSIVE MakeDirs(_, _)
MakeDirs(d, sep) ==
    IF d = <<>> THEN {<<>>} ELSE {d} \cup MakeDirs(DirName(d, sep), sep)

(* ------------------------------------------------------------------ *)
(* Input archives: header, directory records, truncation               *)
(* ------------------------------------------------------------------ *)
\* a 256-byte name slot: the name, a NUL, then don't-care padding
NameSlot(nm, pad) ==
    IF Len(nm) >= FIXED_PATH_LEN THEN SubSeq(nm, 1, FIXED_PATH_LEN)
    ELSE nm \o <<0>> \o Rep(pad, FIXED_PATH_LEN - Len(nm) - 1)

LE32(v) == <<v % 256, (v \div 256) % 256, (v \div 65536) % 256, (v \div 16777216) % 256>>

RawRecord(t) ==
    NameSlot(t.nm, t.pad) \o LE32(t.off) \o LE32(t.sz) \o (IF t.uend THEN UEND ELSE <<>>)

Tpl(nm, pad, off, sz, uend) == [nm |-> nm, pad |-> pad, off |-> off, sz |-> sz, uend |-> uend]

N_plain == <<97, 46, 98, 105, 110>>                          \* a.bin
N_sub == <<46, 46, 92, 102>>                                 \* ..\f
N_slash == <<46, 46, 47, 102>>                               \* ../f
N_parent == <<92, 46, 46>>                                   \* \..
N_seps == <<92, 92, 92>>                                     \* \\\
N_mixsep == <<47, 92, 47>>                                   \* /\/
N_bmp == <<66, 77, 56, 0, 40>>                               \* BM8 and bitmap header bytes
\* UNIONFILES 05 (83 5C) . FF t: in first position the magic lies at byte 16
N_magic == HEADER_MAGIC \o <<5, 131, 92, 46, 255, 116>>
\* 256 bytes without a NUL; in first position the magic lies across byte 64
N_long == Rep(120, 46) \o HEADER_MAGIC \o Rep(121, 200)

Templates ==
    { Tpl(N_plain, 0, 20, 4, TRUE),
      Tpl(N_sub, 88, 280, 3, FALSE),
      Tpl(N_slash, 0, 16, 2, TRUE),
      Tpl(N_parent, 0, 1, 1, FALSE),
      Tpl(N_seps, 0, 2, 2, TRUE),
      Tpl(N_mixsep, 0, 3, 3, FALSE),
      Tpl(N_bmp, 0, 54, 40, FALSE),
      Tpl(N_plain, 88, 0, 5, FALSE),
      Tpl(N_plain, 0, 5, 0, TRUE),
      Tpl(N_magic, 0, 270, 70000, TRUE),
      Tpl(N_long, 0, 5000, 3, FALSE) }

H_std == HEADER_MAGIC \o Rep(0, 6)                           \* magic at offset 0

H_shift == <<1, 2, 3>> \o HEADER_MAGIC \o <<4, 5, 6>>        \* magic at offset 3

H_none == Rep(88, 16)                                        \* no magic in the header

\* a header and the number of bytes missing at the end of the file
Layouts == { <<H_std, 0>>, <<H_std, 2>>, <<H_std, 10>>, <<H_shift, 0>>, <<H_none, 0>> }

RECURSIVE Concat(_)
Concat(ss) == IF ss = <<>> THEN <<>> ELSE Head(ss) \o Concat(Tail(ss))

BuildArchive(h, ts, drop) ==
    LET full == h \o Concat([i \in 1..Len(ts) |-> RawRecord(ts[i])])
    IN SubSeq(full, 1, Max(Len(full) - drop, 0))

Archives ==
    { BuildArchive(l[1], ts, l[2]) :
        l \in Layouts, ts \in UNION {[1..n -> Templates] : n \in 0..MaxRecords} }

(* ------------------------------------------------------------------ *)
(* State                                                               *)
(* ------------------------------------------------------------------ *)
VARIABLES
    sep,        \* os.sep of the platform
    archive,    \* the bytes of input_file
    pos,        \* the cursor of f
    pc,         \* position in extract()
    raised,     \* the exception that ended the run, "" while there is none
    name,       \* local: name
    offset,     \* local: offset
    size,       \* local: size
    entries,    \* local: entries
    idx,        \* the for loop: index of the next entry
    dirs,       \* directories under out_dir (<<>> is out_dir)
    files,      \* output files: path relative to out_dir -> bytes
    log,        \* the lines printed
    io          \* history: the reads and seeks made on f

vars == <<sep, archive, pos, pc, raised, name, offset, size, entries, idx, dirs, files, log, io>>

Line(tag, text, n) == [tag |-> tag, text |-> text, n |-> n]

IoRead(what, at, want, got) ==
    [op |-> "read", what |-> what, at |-> at, want |-> want, got |-> got]

IoSeek(to) == [op |-> "seek", what |-> "", at |-> to, want |-> 0, got |-> 0]

NoFiles == [p \in {} |-> <<>>]

Init ==
    /\ sep \in {SLASH, BACKSLASH}
    /\ archive \in Archives
    /\ pos = 0
    /\ pc = "makedirs"
    /\ raised = ""
    /\ name = <<>>
    /\ offset = 0
    /\ size = 0
    /\ entries = <<>>
    /\ idx = 1
    /\ dirs = {}
    /\ files = NoFiles
    /\ log = <<>>
    /\ io = <<>>

(* ------------------------------------------------------------------ *)
(* extract(): output directory and magic (lines 40-52)                 *)
(* ------------------------------------------------------------------ *)
\* os.makedirs(out_dir, exist_ok=True); an OSError here ends the run
MakeOutDir ==
    /\ pc = "makedirs"
    /\ \E ok \in BOOLEAN :
         IF ok
         THEN dirs' = dirs \cup MakeDirs(<<>>, sep) /\ pc' = "locate_magic" /\ raised' = raised
         ELSE dirs' = dirs /\ pc' = "crashed" /\ raised' = "OSError:out_dir"
    /\ UNCHANGED <<sep, archive, pos, name, offset, size, entries, idx, files, log, io>>

\* variant: the search window is a whole name slot instead of 64 bytes
PeekWide(data) == FileRead(data, 0, FIXED_PATH_LEN)

\* peek = f.read(64) after f.seek(0)
Peek(data) == FileRead(data, 0, PEEK_LEN)

LocateMagic ==
    /\ pc = "locate_magic"
    /\ LET magic == FileRead(archive, 0, Len(HEADER_MAGIC))
           peek == Peek(archive)
           first == IoRead("magic", 0, Len(HEADER_MAGIC), Len(magic))
           again == <<first, IoSeek(0), IoRead("peek", 0, PEEK_LEN, Len(peek))>>
       IN IF magic = HEADER_MAGIC
          THEN /\ pos' = Len(magic)
               /\ io' = io \o <<first>>
               /\ pc' = "seek_dir"
               /\ raised' = raised
          ELSE IF Find(peek, HEADER_MAGIC) = -1
          THEN /\ pos' = Len(peek)
               /\ io' = io \o again
               /\ pc' = "aborted"
               /\ raised' = "SystemExit"
          ELSE /\ pos' = Find(peek, HEADER_MAGIC)
               /\ io' = io \o again \o <<IoSeek(Find(peek, HEADER_MAGIC))>>
               /\ pc' = "seek_dir"
               /\ raised' = raised
    /\ UNCHANGED <<sep, archive, name, offset, size, entries, idx, dirs, files, log>>

\* f.seek(START_OFFSET)
SeekDirectory ==
    /\ pc = "seek_dir"
    /\ pos' = START_OFFSET
    /\ io' = io \o <<IoSeek(START_OFFSET)>>
    /\ pc' = "read_slot"
    /\ UNCHANGED <<sep, archive, raised, name, offset, size, entries, idx, dirs, files, log>>

(* ------------------------------------------------------------------ *)
(* extract(): the directory loop (lines 54-75)                         *)
(* ------------------------------------------------------------------ *)
\* not chunk or len(chunk) < FIXED_PATH_LEN
ShortChunk(chunk) == chunk = <<>> \/ Len(chunk) < FIXED_PATH_LEN

\* variant: only an empty name ends the directory
RejectedIfEmpty(nm) == nm = <<>>

\* not looks_like_valid_path(name)
Rejected(nm) == ~looks_like_valid_path(nm)

\* variant: "if not data: break", a partial pair reaches struct.unpack
ShortPairEmptyOnly(data) == data = <<>>

\* len(data) < 8
ShortPair(data) == Len(data) < PAIR_LEN

\* uend != b"UEND"
NotUend(uend) == uend # UEND

\* f.seek(-4, 1) with the cursor at cur
Rewind(cur) == cur - TAG_LEN

ReadSlot ==
    /\ pc = "read_slot"
    /\ LET chunk == FileRead(archive, pos, FIXED_PATH_LEN)
           nm == read_cstring(chunk)
       IN /\ pos' = pos + Len(chunk)
          /\ io' = io \o <<IoRead("slot", pos, FIXED_PATH_LEN, Len(chunk))>>
          /\ IF ShortChunk(chunk)
             THEN pc' = "report" /\ UNCHANGED <<name, log>>
             ELSE /\ name' = nm
                  /\ IF Rejected(nm)
                     THEN pc' = "report" /\ log' = log \o <<Line("end_dir", nm, 0)>>
                     ELSE pc' = "read_pair" /\ log' = log
    /\ UNCHANGED <<sep, archive, raised, offset, size, entries, idx, dirs, files>>

ReadPair ==
    /\ pc = "read_pair"
    /\ LET data == FileRead(archive, pos, PAIR_LEN)
       IN /\ pos' = pos + Len(data)
          /\ io' = io \o <<IoRead("pair", pos, PAIR_LEN, Len(data))>>
          /\ IF ShortPair(data)
             THEN pc' = "report" /\ UNCHANGED <<raised, offset, size>>
             ELSE IF Len(data) # PAIR_LEN      \* struct.unpack needs exactly 8 bytes
             THEN pc' = "crashed" /\ raised' = "struct.error" /\ UNCHANGED <<offset, size>>
             ELSE /\ offset' = U32(SubSeq(data, 1, 4))
                  /\ size' = U32(SubSeq(data, 5, 8))
                  /\ pc' = "read_uend"
                  /\ raised' = raised
    /\ UNCHANGED <<sep, archive, name, entries, idx, dirs, files, log>>

ReadUend ==
    /\ pc = "read_uend"
    /\ LET uend == FileRead(archive, pos, TAG_LEN)
           after == pos + Len(uend)
           rd == IoRead("tag", pos, TAG_LEN, Len(uend))
       IN IF NotUend(uend)
          THEN IF Rewind(after) < 0              \* seek before the start: OSError
               THEN /\ pos' = after
                    /\ io' = io \o <<rd>>
                    /\ pc' = "crashed"
                    /\ raised' = "OSError:seek"
                    /\ entries' = entries
               ELSE /\ pos' = Rewind(after)
                    /\ io' = io \o <<rd, IoSeek(Rewind(after))>>
                    /\ pc' = "read_slot"
                    /\ raised' = raised
                    /\ entries' = Append(entries, <<name, offset, size>>)
          ELSE /\ pos' = after
               /\ io' = io \o <<rd>>
               /\ pc' = "read_slot"
               /\ raised' = raised
               /\ entries' = Append(entries, <<name, offset, size>>)
    /\ UNCHANGED <<sep, archive, name, offset, size, idx, dirs, files, log>>

\* print(f"发现 {len(entries)} 个条目，开始解包…")
Report ==
    /\ pc = "report"
    /\ log' = log \o <<Line("count", <<>>, Len(entries))>>
    /\ pc' = "extract"
    /\ UNCHANGED <<sep, archive, pos, raised, name, offset, size, entries, idx, dirs, files, io>>

(* ------------------------------------------------------------------ *)
(* extract(): the extraction loop (lines 79-99)                        *)
(* ------------------------------------------------------------------ *)
\* variant: "and" in place of "or"
IsEmptyEntryBoth(off, sz) == off = 0 /\ sz = 0

\* offset == 0 or size == 0
IsEmptyEntry(off, sz) == off = 0 \/ sz = 0

\* not safe_name
IsIllegalName(safe) == safe = <<>>

\* open(out_path, "wb") of a directory raises OSError
OpensDirectory(safe) == safe \in {<<46>>, <<46, 46>>} \/ safe \in dirs

\* variant: the output file is opened with "ab" instead of "wb"
WriteFileAppend(fs, safe, data) ==
    [p \in DOMAIN fs \cup {safe} |->
        IF p = safe THEN (IF safe \in DOMAIN fs THEN fs[safe] \o data ELSE data) ELSE fs[p]]

\* the file system after out.write(data) to out_dir/safe
WriteFile(fs, safe, data) ==
    [p \in DOMAIN fs \cup {safe} |-> IF p = safe THEN data ELSE fs[p]]

InLoop == pc = "extract" /\ idx <= Len(entries)

Bind(e) == name' = e[1] /\ offset' = e[2] /\ size' = e[3]

SkipEmpty ==
    /\ InLoop
    /\ LET e == entries[idx]
       IN /\ IsEmptyEntry(e[2], e[3])
          /\ Bind(e)
          /\ log' = log \o <<Line("skip_empty", e[1], 0)>>
    /\ idx' = idx + 1
    /\ UNCHANGED <<sep, archive, pos, pc, raised, entries, dirs, files, io>>

SkipIllegal ==
    /\ InLoop
    /\ LET e == entries[idx]
       IN /\ ~IsEmptyEntry(e[2], e[3])
          /\ IsIllegalName(sanitize_filename(e[1], sep))
          /\ Bind(e)
          /\ log' = log \o <<Line("skip_illegal", e[1], 0)>>
    /\ idx' = idx + 1
    /\ UNCHANGED <<sep, archive, pos, pc, raised, entries, dirs, files, io>>

\* os.makedirs(os.path.dirname(out_path), exist_ok=True) raises OSError (line 90)
EntryDirFails ==
    /\ InLoop
    /\ LET e == entries[idx]
       IN /\ ~IsEmptyEntry(e[2], e[3])
          /\ ~IsIllegalName(sanitize_filename(e[1], sep))
          /\ Bind(e)
    /\ pc' = "crashed"
    /\ raised' = "OSError:makedirs"
    /\ UNCHANGED <<sep, archive, pos, entries, idx, dirs, files, log, io>>

\* lines 89-97, the open and the write succeed
EntryWritten ==
    /\ InLoop
    /\ LET e == entries[idx]
           safe_name == sanitize_filename(e[1], sep)
           data == FileRead(archive, e[2], e[3])
       IN /\ ~IsEmptyEntry(e[2], e[3])
          /\ ~IsIllegalName(safe_name)
          /\ ~OpensDirectory(safe_name)
          /\ Bind(e)
          /\ dirs' = dirs \cup MakeDirs(DirName(safe_name, sep), sep)
          /\ pos' = e[2] + Len(data)
          /\ io' = io \o <<IoSeek(e[2]), IoRead("payload", e[2], e[3], Len(data))>>
          /\ files' = WriteFile(files, safe_name, data)
          /\ log' = log \o <<Line("ok", safe_name, e[3])>>
    /\ idx' = idx + 1
    /\ UNCHANGED <<sep, archive, pc, raised, entries>>

\* lines 89-99, the open or the write raises OSError: the open leaves the
\* file system as it was, a failed write leaves a truncated file
EntryWriteFails ==
    /\ InLoop
    /\ LET e == entries[idx]
           safe_name == sanitize_filename(e[1], sep)
           data == FileRead(archive, e[2], e[3])
       IN /\ ~IsEmptyEntry(e[2], e[3])
          /\ ~IsIllegalName(safe_name)
          /\ Bind(e)
          /\ dirs' = dirs \cup MakeDirs(DirName(safe_name, sep), sep)
          /\ pos' = e[2] + Len(data)
          /\ io' = io \o <<IoSeek(e[2]), IoRead("payload", e[2], e[3], Len(data))>>
          /\ \/ files' = files
             \/ ~OpensDirectory(safe_name) /\ files' = WriteFile(files, safe_name, <<>>)
          /\ log' = log \o <<Line("fail", safe_name, 0)>>
    /\ idx' = idx + 1
    /\ UNCHANGED <<sep, archive, pc, raised, entries>>

\* the for loop is exhausted, f is closed, extract returns
Finish ==
    /\ pc = "extract"
    /\ idx > Len(entries)
    /\ pc' = "done"
    /\ UNCHANGED <<sep, archive, pos, raised, name, offset, size, entries, idx, dirs, files, log, io>>

Next ==
    \/ MakeOutDir
    \/ LocateMagic
    \/ SeekDirectory
    \/ ReadSlot
    \/ ReadPair
    \/ ReadUend
    \/ Report
    \/ SkipEmpty
    \/ SkipIllegal
    \/ EntryDirFails
    \/ EntryWritten
    \/ EntryWriteFails
    \/ Finish

Spec == Init /\ [][Next]_vars

TypeOK ==
    /\ sep \in {SLASH, BACKSLASH}
    /\ pos \in Nat
    /\ pc \in {"makedirs", "locate_magic", "seek_dir", "read_slot", "read_pair", "read_uend",
               "report", "extract", "done", "aborted", "crashed"}
    /\ idx \in 1..(Len(entries) + 1)

(* ================================================================== *)
(* Properties                                                          *)
(* ================================================================== *)

(* The directory as the format lays it out from byte p: 256-byte name  *)
(* slot, two little-endian u32, optional UEND tag.  table: the records *)
(* that are complete and precede the first rejected or truncated one;  *)
(* at: where that one starts; why: what ends the directory.            *)
RECURSIVE Walk(_, _, _)
Walk(data, p, acc) ==
    LET nm == read_cstring(Slice(data, p, p + FIXED_PATH_LEN))
        q == p + FIXED_PATH_LEN + PAIR_LEN
        tag == IF Slice(data, q, q + TAG_LEN) = UEND THEN TAG_LEN ELSE 0
    IN IF p + FIXED_PATH_LEN > Len(data)
       THEN [table |-> acc, at |-> p, why |-> "short_slot"]
       ELSE IF ~looks_like_valid_path(nm)
       THEN [table |-> acc, at |-> p, why |-> "rejected"]
       ELSE IF q > Len(data)
       THEN [table |-> acc, at |-> p, why |-> "short_pair"]
       ELSE Walk(data, q + tag,
                 Append(acc, <<nm, U32(Slice(data, q - 8, q - 4)), U32(Slice(data, q - 4, q))>>))

Directory == Walk(archive, START_OFFSET, <<>>)

\* the directory loop is over
DirectoryRead == pc \in {"report", "extract", "done"} \/ raised = "OSError:makedirs"

IsPrefix(s, t) == Len(s) <= Len(t) /\ SubSeq(t, 1, Len(s)) = s

Reads(what) == {i \in 1..Len(io) : io[i].op = "read" /\ io[i].what = what}

\* the lines printed for the entries follow the count line
HasCount == \E i \in 1..Len(log) : log[i].tag = "count"

CountAt == CHOOSE i \in 1..Len(log) : log[i].tag = "count"

Processed == IF HasCount THEN 1..(Len(log) - CountAt) ELSE {}

EntryLine(j) == log[CountAt + j]

\* the entries for which an output path was built
Attempted == {j \in Processed : EntryLine(j).tag \in {"ok", "fail"}}

\* C1: a short read of a name slot or of an offset/size pair raises nothing and
\* ends the directory loop; the entry table is then exactly the records fully
\* read before it, in archive order.
C1_ShortReadKeepsPrefix ==
    LET d == Directory
    IN d.why \in {"short_slot", "short_pair"} =>
        /\ raised \notin {"struct.error", "OSError:seek"}
        /\ IsPrefix(entries, d.table)
        /\ DirectoryRead => entries = d.table

\* a pair cut short after at least one complete record
C1_Witness ==
    /\ pc = "report"
    /\ Directory.why = "short_pair"
    /\ Len(entries) >= 1
    /\ io[Len(io)].what = "pair" /\ io[Len(io)].got > 0 /\ io[Len(io)].got < PAIR_LEN

\* C2: when record k is the first whose name slot decodes to a rejected name,
\* the table has exactly the k records before it, the pair of record k is not
\* read and nothing is read from the directory after its name slot.
C2_RejectedNameEndsDirectory ==
    LET d == Directory
    IN (DirectoryRead /\ d.why = "rejected") =>
        /\ entries = d.table
        /\ \A i \in Reads("pair") : io[i].at < d.at
        /\ \A i \in Reads("tag") : io[i].at <= d.at
        /\ Cardinality(Reads("slot")) = Len(d.table) + 1
        /\ \A i \in Reads("slot") : io[i].at <= d.at

\* the second record is rejected (its name begins with BM), the run is over
C2_Witness ==
    /\ pc = "done"
    /\ Directory.why = "rejected"
    /\ Len(entries) = 1
    /\ StartsWith(read_cstring(Slice(archive, Directory.at, Directory.at + FIXED_PATH_LEN)),
                  BM_PREFIX)

MagicInFirst64 ==
    \E i \in 0..(PEEK_LEN - Len(HEADER_MAGIC)) :
        /\ i + Len(HEADER_MAGIC) <= Len(archive)
        /\ \A j \in 1..Len(HEADER_MAGIC) : archive[i + j] = HEADER_MAGIC[j]

\* C3: without the magic in the first 64 bytes the run aborts with the format
\* error before a directory record is read and no file is written; with the
\* magic anywhere in the first 64 bytes the run goes on and the first name
\* slot is read at offset 16.
C3_MagicDecidesAbort ==
    /\ (pc \notin {"makedirs", "locate_magic"} /\ raised # "OSError:out_dir")
           => ((pc = "aborted") <=> ~MagicInFirst64)
    /\ pc = "aborted"
           => raised = "SystemExit" /\ files = NoFiles /\ entries = <<>> /\ Reads("slot") = {}
    /\ \A i \in Reads("slot") :
           (\A j \in Reads("slot") : i <= j) => io[i].at = START_OFFSET

\* the archive holds the magic, but not inside its first 64 bytes
C3_Witness ==
    /\ pc = "aborted"
    /\ Find(archive, HEADER_MAGIC) # -1

\* C4: an output failure while an entry is processed never ends the run.
C4_EntryFailureNeverAborts ==
    ~(pc = "crashed" /\ idx <= Len(entries) /\ raised = "OSError:makedirs")

\* C5: an entry with offset 0 or size 0 is skipped: no file, no directory,
\* no seek or read of the archive, a skip line and no failure line, and the
\* loop goes on with the next entry.
C5_EmptyEntrySkipped ==
    [][ (pc = "extract" /\ idx <= Len(entries)
            /\ (entries[idx][2] = 0 \/ entries[idx][3] = 0))
        => /\ files' = files
           /\ dirs' = dirs
           /\ io' = io
           /\ pos' = pos
           /\ raised' = raised
           /\ log' = Append(log, Line("skip_empty", entries[idx][1], 0))
           /\ pc' = "extract"
           /\ idx' = idx + 1 ]_vars

\* an empty entry was skipped and the entry after it was written
C5_Witness ==
    \E j \in Processed :
        /\ j + 1 \in Processed
        /\ EntryLine(j).tag = "skip_empty"
        /\ EntryLine(j + 1).tag = "ok"

\* the archive bytes at positions off .. off+sz-1 that exist
Payload(off, sz) ==
    [i \in 1..(IF off >= Len(archive) THEN 0 ELSE Min(sz, Len(archive) - off)) |->
        archive[off + i]]

\* the last entry, in table order, that went to path p
LastFor(p) ==
    CHOOSE j \in Attempted :
        /\ EntryLine(j).text = p
        /\ \A k \in Attempted : EntryLine(k).text = p => k <= j

\* C6: the file of an entry whose write succeeds holds the archive bytes
\* offset .. offset+size-1, cut at end-of-file; of the entries that go to one
\* path the last one decides the content.
C6_RoundTrip ==
    /\ \A j \in Processed : EntryLine(j).tag = "ok" => EntryLine(j).text \in DOMAIN files
    /\ \A p \in DOMAIN files :
           /\ \E j \in Attempted : EntryLine(j).text = p
           /\ EntryLine(LastFor(p)).tag = "ok"
                  => files[p] = Payload(entries[LastFor(p)][2], entries[LastFor(p)][3])

\* two entries with different payloads were written to one path
C6_Witness ==
    \E i, j \in Processed :
        /\ i < j
        /\ EntryLine(i).tag = "ok" /\ EntryLine(j).tag = "ok"
        /\ EntryLine(i).text = EntryLine(j).text
        /\ Payload(entries[i][2], entries[i][3]) # Payload(entries[j][2], entries[j][3])
        /\ files[EntryLine(j).text] = Payload(entries[j][2], entries[j][3])

\* the components of a path
RECURSIVE Split(_, _)
Split(path, c) ==
    LET at == {i \in 1..Len(path) : path[i] = c}
        k == IF at = {} THEN 0 ELSE CHOOSE i \in at : \A j \in at : i <= j
    IN IF k = 0 THEN <<path>>
       ELSE <<SubSeq(path, 1, k - 1)>> \o Split(SubSeq(path, k + 1, Len(path)), c)

\* C7: the sanitized name has one path component per backslash-separated
\* component of the entry name, and the file goes to the matching subdirectory.
C7_ComponentsPreserved ==
    \A j \in Attempted :
        LET safe == EntryLine(j).text
        IN /\ Len(Split(safe, sep)) = Len(Split(LStrip(entries[j][1], BACKSLASH), BACKSLASH))
           /\ DirName(safe, sep) \in dirs

OnlySeparators(nm, s) == \A i \in 1..Len(nm) : nm[i] \in {BACKSLASH, s}

\* C8 as stated: a non-empty name never sanitizes to the empty string, and the
\* skip for an illegal path is never taken for a non-empty name.
C8_EmptyOnlyForEmptyName ==
    /\ \A j \in 1..Len(entries) :
           entries[j][1] # <<>> => sanitize_filename(entries[j][1], sep) # <<>>
    /\ \A j \in Processed :
           entries[j][1] # <<>> => EntryLine(j).tag # "skip_illegal"

\* C8 amended: the sanitized name is empty exactly when the name is made only of
\* backslashes and platform separators, and the skip for an illegal path is
\* taken exactly for the non-empty entries with such a name.
C8_EmptyIffOnlySeparators ==
    /\ \A j \in 1..Len(entries) :
           (sanitize_filename(entries[j][1], sep) = <<>>) <=> OnlySeparators(entries[j][1], sep)
    /\ \A j \in Processed :
           (EntryLine(j).tag = "skip_illegal")
               <=> (/\ entries[j][2] # 0
                    /\ entries[j][3] # 0
                    /\ OnlySeparators(entries[j][1], sep))

\* an entry with a non-empty name was skipped as an illegal path
C8_Witness ==
    \E j \in Processed :
        /\ EntryLine(j).tag = "skip_illegal"
        /\ Len(entries[j][1]) >= MIN_NAME_LEN

\* walking the components from the output root never leaves it
RECURSIVE StaysInside(_, _)
StaysInside(comps, depth) ==
    IF comps = <<>> THEN TRUE
    ELSE IF Head(comps) = <<46, 46>> THEN depth > 0 /\ StaysInside(Tail(comps), depth - 1)
    ELSE IF Head(comps) \in {<<>>, <<46>>} THEN StaysInside(Tail(comps), depth)
    ELSE StaysInside(Tail(comps), depth + 1)

Contained(path, s) == path # <<>> /\ Head(path) # s /\ StaysInside(Split(path, s), 0)

\* C9: the sanitized name of an entry that reaches extraction is not absolute
\* and does not resolve outside the output directory, and every file written
\* lies inside it.
C9_PathContained ==
    /\ \A j \in Attempted : Contained(EntryLine(j).text, sep)
    /\ \A p \in DOMAIN files : Contained(p, sep)

\* where record k starts when every record before it is 264 or 268 bytes wide
RECURSIVE RecordStart(_)
RecordStart(k) ==
    IF k = 0 THEN START_OFFSET
    ELSE LET q == RecordStart(k - 1) + FIXED_PATH_LEN + PAIR_LEN
         IN IF Slice(archive, q, q + TAG_LEN) = UEND THEN q + TAG_LEN ELSE q

\* C10: at the start of every iteration of the directory loop the cursor is 16
\* plus the widths (264, or 268 with the tag) of the records accepted so far.
C10_CursorAtRecordBoundary ==
    pc = "read_slot" => pos = RecordStart(Len(entries))

====
